---- MODULE Spec2Model ----
(***************************************************************************)
(* Model of the SuiteCloud Backup extension: the backup store kept by      *)
(* BackupManager (content files plus .meta.json sidecars), the index that  *)
(* listBackups rebuilds from it, restoreFile / compareFiles, and the       *)
(* suitecloudbackup.uploadFile command that drives them around the         *)
(* SuiteCloud CLI (file:import, file:upload).                              *)
(*                                                                         *)
(* Each task is one invocation chain of the command on the extension       *)
(* host's event loop; every `await` of the source is a point where another *)
(* task (or the clock, or the environment) may take a step.                *)
(***************************************************************************)
EXTENDS Integers, Sequences, FiniteSets, TLC

VARIABLES
  clock,        \* wall clock in milliseconds, as read by new Date()
  ws,           \* workspace files: relative path -> bytes
  remote,       \* the NetSuite file cabinet: relative path -> bytes
  bak,          \* backup store, content files:  backup path P -> bytes
  meta,         \* backup store, sidecars: P -> metadata of P + '.meta.json'
  writer,       \* history: per backup path, the writes made to it, in order
  calls,        \* history: the createBackup calls that returned, in order
  cfgAuthId,    \* suitecloudbackup.defaultAuthId as BackupManager.getAuthId sees it
  scm,          \* SuiteCloudManager: projectRoot set?, authId
  auth,         \* the last suitecloudbackup.checkAuth: ID, listing, verdict
  origin,       \* history: workspace and file cabinet before any command ran
  pc,           \* per task: position in the command
  sub,          \* per task: position inside createBackup / restoreFile
  loc,          \* per task: the command's local variables
  hist          \* per task, history: what the current run has done so far

vars == <<clock, ws, remote, bak, meta, writer, calls, cfgAuthId, scm, auth, origin, pc, sub, loc, hist>>

----------------------------------------------------------------------------
(* Bounds *)

\* Clock readings are 0..MaxClock milliseconds.
MaxClock == 1
\* Command invocations started in a behaviour, over all tasks.
MaxRuns == 2

Tasks == {1, 2}

----------------------------------------------------------------------------
(* Bytes, strings and the 'utf8' encoding used by fs.readFile / writeFile *)

ReplacementChar == 65533
\* U+FFFD encoded in UTF-8
ReplacementBytes == <<239, 191, 189>>

\* Buffer -> string, as fs.readFile(path, 'utf8') decodes: ASCII bytes map to
\* their code point, the encoded U+FFFD decodes to U+FFFD, and any other byte
\* (no valid sequence starts with 254 or 255) is replaced by U+FFFD.
RECURSIVE Utf8Decode(_)
Utf8Decode(bytes) ==
  IF bytes = <<>> THEN <<>>
  ELSE IF Head(bytes) < 128 THEN <<Head(bytes)>> \o Utf8Decode(Tail(bytes))
  ELSE IF Len(bytes) >= 3 /\ SubSeq(bytes, 1, 3) = ReplacementBytes
       THEN <<ReplacementChar>> \o Utf8Decode(SubSeq(bytes, 4, Len(bytes)))
  ELSE <<ReplacementChar>> \o Utf8Decode(Tail(bytes))

\* string -> bytes, as fs.writeFile(path, string, 'utf8') encodes.
RECURSIVE Utf8Encode(_)
Utf8Encode(str) ==
  IF str = <<>> THEN <<>>
  ELSE IF Head(str) < 128 THEN <<Head(str)>> \o Utf8Encode(Tail(str))
  ELSE ReplacementBytes \o Utf8Encode(Tail(str))

\* File contents of the model: two texts, bytes that are not valid UTF-8, and
\* the text consisting of U+FFFD.
TextA == <<97>>
TextB == <<98>>
Binary == <<255>>
TextR == ReplacementBytes

LocalContents == {TextA, Binary}
RemoteContents == {TextA, TextB, Binary, TextR}

----------------------------------------------------------------------------
(* Paths *)

\* Workspace files, by their path relative to the workspace folder.
FileA == <<"src", "a.js">>
FileB == <<"b.js">>
Files == {FileA, FileB}

WorkspaceRoot == "/ws"
\* uri.fsPath of a workspace file
FsPath(f) == <<WorkspaceRoot>> \o f

Front(s) == SubSeq(s, 1, Len(s) - 1)
Last(s) == s[Len(s)]

NoAuth == ""
AuthIds == {"prod", "sb"}
Sources == {"local", "account"}

\* path.relative(workspaceRoot, filePath)
getRelativePath(fsPath) ==
  IF Head(fsPath) = WorkspaceRoot THEN Tail(fsPath) ELSE fsPath

\* The backup path  <baseBackupDir>/<dir...>/<file>.<ts>.bak : dir is the
\* directory below baseBackupDir, ts the timestamp in the file name.
BackupPath(authId, source, relativePath, ts) ==
  [dir  |-> <<authId, source>> \o Front(relativePath),
   file |-> Last(relativePath),
   ts   |-> ts]

\* SuiteCloudManager.getAccountInfo(authId), with the project.json fallback:
\* the descriptor known for an authentication ID (empty when none is known).
getAccountInfo(authId) ==
  IF authId = "prod" THEN [name |-> "Acme", id |-> "123", url |-> "acme.example"]
  ELSE [name |-> "", id |-> "", url |-> ""]

\* The metadata object createBackup serialises into the sidecar.
Metadata(fsPath, tsMeta, source, authId) ==
  [originalFile |-> fsPath,
   timestamp    |-> tsMeta,
   source       |-> source,
   authId       |-> authId,
   relativePath |-> getRelativePath(fsPath),
   accountInfo  |-> getAccountInfo(authId)]

----------------------------------------------------------------------------
(* The SuiteCloud CLI as seen through SuiteCloudManager *)

\* What a failed `suitecloud file:import` printed, by the first test of
\* handleImportError that its stderr/stdout satisfies.
ImportFailureOutputs ==
  {"notFoundText", "permissionText", "timeoutText", "pathText",
   "netsuiteNoFilesText", "netsuiteOtherText", "otherText"}

\* handleImportError: the error message returned for a failed import.
handleImportError(output) ==
  CASE output = "notFoundText"        -> "File not found in NetSuite"
    [] output = "permissionText"      -> "Permission denied ... or authentication"
    [] output = "timeoutText"         -> "Connection issue"
    [] output = "pathText"            -> "Invalid file path format"
    [] output = "netsuiteNoFilesText" -> "NetSuite error: No files were found"
    [] output = "netsuiteOtherText"   -> "NetSuite error"
    [] OTHER                          -> "Failed to import"

\* Authentication IDs the CLI may have stored, and their characters.
StoredIds == {"prod", "sb2"}

Chars(id) ==
  CASE id = "prod" -> <<"p", "r", "o", "d">>
    [] id = "sb"   -> <<"s", "b">>
    [] id = "sb2"  -> <<"s", "b", "2">>
    [] OTHER       -> <<>>

\* What `suitecloud account:manageauth --list` can do: fail, or list the
\* stored IDs in some order.
ListFailed == <<"failed">>
Listings ==
  {ListFailed, <<>>} \cup {<<a>> : a \in StoredIds}
    \cup {<<a, b>> : a, b \in StoredIds}

\* The stdout of a listing, one line per ID.
RECURSIVE Stdout(_)
Stdout(listing) ==
  IF listing = <<>> THEN <<>>
  ELSE <<"authid: ">> \o Chars(Head(listing)) \o <<"\n">> \o Stdout(Tail(listing))

\* String.prototype.includes.
Includes(text, part) ==
  \E i \in 1..(Len(text) - Len(part) + 1) : SubSeq(text, i, i + Len(part) - 1) = part

\* Variant of verifyAuthentication: the ID must be one of the listed IDs.
verifyAuthentication_listed(authId, projectRoot, listing) ==
  /\ authId # NoAuth
  /\ projectRoot
  /\ listing # ListFailed
  /\ \E i \in 1..Len(listing) : listing[i] = authId

\* verifyAuthentication: false without an ID or a project root or when the
\* listing fails, otherwise result.stdout.includes(authId).
verifyAuthentication(authId, projectRoot, listing) ==
  /\ authId # NoAuth
  /\ projectRoot
  /\ listing # ListFailed
  /\ Includes(Stdout(listing), Chars(authId))

\* runCommand: the guards before the process is spawned, and the result.
\* `verify` is what verifyAuthentication returned, `cli` how the process ended.
runCommand(s, isImport, verify, cli) ==
  IF ~s.projectRoot THEN "No project root directory found"
  ELSE IF s.authId = NoAuth THEN "No authentication ID available"
  ELSE IF ~verify THEN "authentication ID is not available"
  ELSE IF cli = "ok" THEN "ok"
  ELSE IF isImport THEN handleImportError(cli)
  ELSE cli

\* Variant of Spawns: the process is spawned without the verification.
Spawns_unverified(s, verify) == s.projectRoot /\ s.authId # NoAuth

\* runCommand spawns the CLI process exactly when all three guards pass.
Spawns(s, verify) == s.projectRoot /\ s.authId # NoAuth /\ verify

\* runCommand calls verifyAuthentication once both settings are present.
Verifies(s) == s.projectRoot /\ s.authId # NoAuth

\* importFile: result ("ok" or the error message) for the user's answer to
\* the confirmation prompt.
importFile(s, answer, verify, cli) ==
  IF ~s.projectRoot THEN "No project root directory found"
  ELSE IF s.authId = NoAuth THEN "No authentication ID available"
  ELSE IF answer # "Yes" THEN "Operation canceled"
  ELSE runCommand(s, TRUE, verify, cli)

\* uploadFile: result ("ok" or the error message).  A failed upload's message
\* is child_process' "Command failed: ..." followed by stderr.
UploadFailureOutputs == {"Command failed: credentials", "Command failed"}

uploadFile(s, verify, cli) ==
  IF ~s.projectRoot THEN "No project root directory found"
  ELSE IF s.authId = NoAuth THEN "No authentication ID available"
  ELSE runCommand(s, FALSE, verify, cli)

\* extension.ts: importResult.error includes 'does not exist in NetSuite' or
\* 'No files were found'.
IsNotInNetSuite(error) == error \in {"NetSuite error: No files were found"}

\* extension.ts: importResult.error includes 'authentication', 'auth' or
\* 'credentials'.
IsImportAuthError(error) ==
  error \in {"No authentication ID available",
             "authentication ID is not available",
             "Permission denied ... or authentication"}

\* extension.ts: uploadResult.error includes 'authentication ID is not
\* available', 'auth', 'credentials', 'token expired', ...
IsUploadAuthError(error) ==
  error \in {"No authentication ID available",
             "authentication ID is not available",
             "Command failed: credentials"}

----------------------------------------------------------------------------
(* compareFiles and listBackups: functions of the files on disk *)

\* readFile for restoreFile's fallback: a Buffer above 5 MB, a utf8 string below.
LargeFileBytes == 5242880

\* Variant of compareFiles: a comparison that fails reports no difference.
compareFiles_errorIsSame(at1, at2, readOk) ==
  IF at1 = {} \/ at2 = {} THEN FALSE
  ELSE LET b1 == CHOOSE b \in at1 : TRUE
           b2 == CHOOSE b \in at2 : TRUE
       IN IF Len(b1) # Len(b2) THEN TRUE
          ELSE IF ~readOk THEN FALSE
          ELSE Utf8Decode(b1) # Utf8Decode(b2)

\* compareFiles(file1Path, file2Path) given what is at the two paths (a set
\* holding the file's bytes, empty when there is no file): TRUE ("different")
\* when a file is missing, the sizes differ or a read fails (the catch block
\* assumes a difference), else whether the decoded contents differ.
compareFiles(at1, at2, readOk) ==
  IF at1 = {} \/ at2 = {} THEN TRUE
  ELSE LET b1 == CHOOSE b \in at1 : TRUE
           b2 == CHOOSE b \in at2 : TRUE
       IN IF Len(b1) # Len(b2) THEN TRUE
          ELSE IF ~readOk THEN TRUE
          ELSE Utf8Decode(b1) # Utf8Decode(b2)

\* What is at a path of a file map.
At(files, p) == IF p \in DOMAIN files THEN {files[p]} ELSE {}

\* new Date(...) of the timestamp recovered from a file name: the regex puts
\* back the two ':' but not the '.', so the string does not parse.
InvalidDate == -1

\* getOriginalFilePath: the sidecar's originalFile, else inferred from the
\* backup path (drop <authId>/<source>, drop '.<ts>.bak').
getOriginalFilePath(sidecars, p) ==
  IF p \in DOMAIN sidecars THEN sidecars[p].originalFile
  ELSE <<WorkspaceRoot>> \o SubSeq(p.dir, 3, Len(p.dir)) \o <<p.file>>

\* The entry findBackupFiles pushes for the backup file p.
BackupEntry(sidecars, p) ==
  [path        |-> p,
   timestamp   |-> IF p \in DOMAIN sidecars THEN sidecars[p].timestamp ELSE InvalidDate,
   source      |-> p.dir[2],
   authId      |-> IF p \in DOMAIN sidecars THEN sidecars[p].authId ELSE "",
   accountInfo |-> IF p \in DOMAIN sidecars THEN sidecars[p].accountInfo
                   ELSE [name |-> "", id |-> "", url |-> ""]]

\* Variant of findBackupFiles: the files of the directory and the backups
\* known from before.
findBackupFiles_cached(store) == {p \in DOMAIN store \cup DOMAIN meta : p.dir[2] \in Sources}

\* findBackupFiles: the '.bak' files below <authId>/<source>.
findBackupFiles(store) == {p \in DOMAIN store : p.dir[2] \in Sources}

\* listBackups: original file path -> the entries of its backup files, built
\* from the directory listing alone.
listBackups(store, sidecars) ==
  LET found == findBackupFiles(store)
      keys  == {getOriginalFilePath(sidecars, p) : p \in found}
  IN [k \in keys |->
        {BackupEntry(sidecars, p) : p \in {q \in found : getOriginalFilePath(sidecars, q) = k}}]

----------------------------------------------------------------------------
(* BackupExplorer: the tree built from the index last loaded *)

\* The orders a set of entries can be listed in.
Perms(S) ==
  {s \in [1..Cardinality(S) -> S] : \A e \in S : \E i \in 1..Cardinality(S) : s[i] = e}

\* [...backups].sort((a, b) => b.timestamp.getTime() - a.timestamp.getTime()):
\* newest first when every timestamp is a date; with an Invalid Date among
\* them the comparator returns NaN, is not a consistent comparison, and the
\* resulting order is implementation-defined.
SortNewestFirst(entries) ==
  IF \A e \in entries : e.timestamp # InvalidDate
  THEN {s \in Perms(entries) :
          \A i, j \in 1..Len(s) : i < j => s[i].timestamp >= s[j].timestamp}
  ELSE Perms(entries)

\* getFileNodes: one node per key of the index that has backups, its
\* description giving their number.
getFileNodes(index) ==
  {[resourceUri |-> k, count |-> Cardinality(index[k])] :
     k \in {f \in DOMAIN index : index[f] # {}}}

\* getBackupNodes(filePath): the lists of backup nodes that can be shown
\* under a file node.
getBackupNodes(index, filePath) ==
  IF filePath \notin DOMAIN index THEN {<<>>}
  ELSE {[i \in 1..Len(s) |->
           [backupPath |-> s[i].path, targetPath |-> filePath,
            source |-> s[i].source, timestamp |-> s[i].timestamp]] :
          s \in SortNewestFirst(index[filePath])}

----------------------------------------------------------------------------
(* restoreFile's two ways of writing the target *)

\* Variant of restoreByCopy: the copy leaves the target empty.
restoreByCopy_truncates(files, store, target, p) == (target :> <<>>) @@ files

\* Variant of restoreByCopy: the copy leaves the target as it was.
restoreByCopy_noop(files, store, target, p) == files

\* fs.copyFile(backupPath, target): a byte-for-byte copy.
restoreByCopy(files, store, target, p) == (target :> store[p]) @@ files

\* The fallback after a failed copy: readFile (utf8 below 5 MB, a Buffer
\* above), then writeFile of what was read.
\* `size` is stats.size of the backup file.
readBackup(store, p, size) ==
  IF size > LargeFileBytes THEN store[p] ELSE Utf8Decode(store[p])

writeTarget(files, target, content, size) ==
  (target :> (IF size > LargeFileBytes THEN content ELSE Utf8Encode(content))) @@ files

----------------------------------------------------------------------------
(* State of a task *)

NoPath == [dir |-> <<>>, file |-> "", ts |-> -1]
NoMeta ==
  [originalFile |-> <<>>, timestamp |-> -1, source |-> "", authId |-> "",
   relativePath |-> <<>>, accountInfo |-> [name |-> "", id |-> "", url |-> ""]]

IdleLoc ==
  [uri |-> <<>>,                 \* the command's uri (relative path)
   backupPath |-> NoPath,        \* let backupPath
   accountBackupPath |-> NoPath, \* let accountBackupPath
   cbSource |-> "",              \* createBackup: source
   cbPath |-> NoPath,            \* createBackup: backupPath
   cbMeta |-> NoMeta,            \* createBackup: metadata
   cbCall |-> <<>>,              \* history: content of uri when createBackup was called
   content |-> <<>>,             \* fileContent / backupContent read so far
   rsTarget |-> <<>>,            \* restoreFile: targetUri
   rsFrom |-> NoPath,            \* restoreFile: backupPath
   rsSize |-> 0]                 \* restoreFile: stats.size

NewHist ==
  [runs |-> 0, start |-> <<>>, events |-> <<>>, outcome |-> "", error |-> "",
   sent |-> <<>>, notified |-> "", importResult |-> "", uploads |-> <<>>,
   verified |-> <<>>]

EmptyFn == [x \in {} |-> 0]

NoCheck == [authId |-> NoAuth, listing |-> <<>>, valid |-> FALSE, checks |-> 0]

\* The files, an empty backup directory, no command running.
InitFiles ==
  /\ clock = 0
  /\ \E c \in LocalContents : ws = [f \in Files |-> IF f = FileA THEN c ELSE TextB]
  /\ \E r \in RemoteContents \cup {<<>>} :
       remote = IF r = <<>> THEN EmptyFn ELSE [f \in {FileA} |-> r]
  /\ bak = EmptyFn
  /\ auth = NoCheck
  /\ origin = [ws |-> ws, remote |-> remote]
  /\ meta = EmptyFn
  /\ writer = EmptyFn
  /\ calls = <<>>
  /\ pc = [t \in Tasks |-> "idle"]
  /\ sub = [t \in Tasks |-> "none"]
  /\ loc = [t \in Tasks |-> IdleLoc]
  /\ hist = [t \in Tasks |-> NewHist]

\* Any configuration: the authentication ID setting may be missing, and
\* SuiteCloudManager may have found no project root or no authentication ID.
Init ==
  /\ InitFiles
  /\ cfgAuthId \in {NoAuth} \cup AuthIds
  /\ scm \in {[projectRoot |-> TRUE, authId |-> "prod"],
              [projectRoot |-> FALSE, authId |-> "prod"],
              [projectRoot |-> TRUE, authId |-> NoAuth]}

\* A configured project: authentication ID set, project root found.
InitConfigured ==
  /\ InitFiles
  /\ cfgAuthId = "prod"
  /\ scm = [projectRoot |-> TRUE, authId |-> "prod"]

\* Commands started so far.
Started == hist[1].runs + hist[2].runs

\* History: task t, in its current command, wrote `part` of backup path p.
Written(t, p, part) ==
  LET w == [task |-> t, run |-> hist[t].runs, part |-> part]
  IN (p :> (IF p \in DOMAIN writer THEN Append(writer[p], w) ELSE <<w>>)) @@ writer

Event(t, e) == [hist EXCEPT ![t].events = Append(@, e)]

\* No command has just ended with its result still to be observed.
Settled == \A t \in Tasks : pc[t] # "done"

\* The command's handler ends (extension.ts 796, 879): "ok" when it ran to
\* its end, "returned" after an early return, "failed" when the outer catch
\* showed 'Operation failed: ...'.
Finished(t, outcome, h) ==
  /\ pc' = [pc EXCEPT ![t] = "done"]
  /\ sub' = [sub EXCEPT ![t] = "none"]
  /\ hist' = [h EXCEPT ![t].outcome = outcome]
  /\ UNCHANGED loc

\* The ended command's record is dropped; the task can take the next command.
Return(t) ==
  /\ pc[t] = "done"
  /\ pc' = [pc EXCEPT ![t] = "idle"]
  /\ loc' = [loc EXCEPT ![t] = IdleLoc]
  /\ hist' = [hist EXCEPT ![t] = [NewHist EXCEPT !.runs = hist[t].runs]]
  /\ UNCHANGED <<clock, ws, remote, bak, meta, writer, calls, cfgAuthId, scm, auth, origin, sub>>

\* An error thrown inside the command's inner try block (extension.ts
\* 766-787): with a local backup the catch block starts the emergency
\* restore, without one the error goes straight to the outer catch.
Thrown(t, err, h) ==
  IF loc[t].backupPath # NoPath
  THEN /\ pc' = [pc EXCEPT ![t] = "catch"]
       /\ sub' = [sub EXCEPT ![t] = "rs_copy"]
       /\ loc' = [loc EXCEPT ![t] =
                    [IdleLoc EXCEPT !.uri = loc[t].uri,
                                    !.backupPath = loc[t].backupPath,
                                    !.accountBackupPath = loc[t].accountBackupPath,
                                    !.rsTarget = loc[t].uri,
                                    !.rsFrom = loc[t].backupPath]]
       /\ hist' = [h EXCEPT ![t].error = err]
  ELSE Finished(t, "failed", [h EXCEPT ![t].error = err])

----------------------------------------------------------------------------
(* suitecloudbackup.checkAuth *)

\* The command verifies the configured authentication ID against the
\* workspace folder and tells the user whether it is valid.
checkAuth(listing) ==
  /\ Settled
  /\ auth' = [authId  |-> cfgAuthId,
              listing |-> listing,
              valid   |-> verifyAuthentication(cfgAuthId, TRUE, listing),
              checks  |-> 1]
  /\ UNCHANGED <<clock, ws, remote, bak, meta, writer, calls, cfgAuthId, scm,
                 origin, pc, sub, loc, hist>>

----------------------------------------------------------------------------
(* suitecloudbackup.uploadFile: start, and step 1 / step 3 (createBackup) *)

\* Variant of Start: the command goes to the import without step 1.
Start_skipsBackup(t, f) ==
  /\ Settled
  /\ pc[t] = "idle"
  /\ Started < MaxRuns
  /\ f \in DOMAIN ws
  /\ pc' = [pc EXCEPT ![t] = "import"]
  /\ sub' = [sub EXCEPT ![t] = "none"]
  /\ loc' = [loc EXCEPT ![t] = [IdleLoc EXCEPT !.uri = f]]
  /\ hist' = [hist EXCEPT ![t] = [NewHist EXCEPT !.runs = hist[t].runs + 1,
                                                 !.start = ws[f]]]
  /\ UNCHANGED <<clock, ws, remote, bak, meta, writer, calls, cfgAuthId, scm, auth, origin>>

\* The command is invoked on a file that exists; it reaches step 1 and calls
\* createBackup(uri, 'local').
Start(t, f) ==
  /\ Settled
  /\ pc[t] = "idle"
  /\ Started < MaxRuns
  /\ f \in DOMAIN ws
  /\ pc' = [pc EXCEPT ![t] = "local"]
  /\ sub' = [sub EXCEPT ![t] = "cb_prep"]
  /\ loc' = [loc EXCEPT ![t] = [IdleLoc EXCEPT !.uri = f, !.cbSource = "local"]]
  /\ hist' = [hist EXCEPT ![t] = [NewHist EXCEPT !.runs = hist[t].runs + 1,
                                                 !.start = ws[f]]]
  /\ UNCHANGED <<clock, ws, remote, bak, meta, writer, calls, cfgAuthId, scm, auth, origin>>

\* Variant of CbPrepare: createBackup waits while another call is between
\* its first read and its last write.
CbPrepare_locked(t) ==
  /\ Settled
  /\ sub[t] = "cb_prep"
  /\ \A u \in Tasks \ {t} : sub[u] \notin {"cb_read", "cb_write", "cb_meta"}
  /\ IF cfgAuthId = NoAuth
     THEN /\ Thrown(t, "Failed to create backup", hist)
          /\ UNCHANGED clock
     ELSE \E later \in {clock, clock + 1} :
            /\ later <= MaxClock
            /\ clock' = later
            /\ sub' = [sub EXCEPT ![t] = "cb_read"]
            /\ loc' = [loc EXCEPT
                 ![t].cbPath = BackupPath(cfgAuthId, loc[t].cbSource,
                                          getRelativePath(FsPath(loc[t].uri)), clock),
                 ![t].cbMeta = Metadata(FsPath(loc[t].uri), later, loc[t].cbSource, cfgAuthId),
                 ![t].cbCall = ws[loc[t].uri]]
            /\ UNCHANGED <<pc, hist>>
  /\ UNCHANGED <<ws, remote, bak, meta, writer, calls, cfgAuthId, scm, auth, origin>>

\* createBackup up to its first file read (backupManager.ts 362-425): the
\* authentication ID, the timestamped name, the metadata.  The two
\* new Date() calls may see different milliseconds.
CbPrepare(t) ==
  /\ Settled
  /\ sub[t] = "cb_prep"
  /\ IF cfgAuthId = NoAuth
     THEN /\ Thrown(t, "Failed to create backup", hist)
          /\ UNCHANGED clock
     ELSE \E later \in {clock, clock + 1} :
            /\ later <= MaxClock
            /\ clock' = later
            /\ sub' = [sub EXCEPT ![t] = "cb_read"]
            /\ loc' = [loc EXCEPT
                 ![t].cbPath = BackupPath(cfgAuthId, loc[t].cbSource,
                                          getRelativePath(FsPath(loc[t].uri)), clock),
                 ![t].cbMeta = Metadata(FsPath(loc[t].uri), later, loc[t].cbSource, cfgAuthId),
                 ![t].cbCall = ws[loc[t].uri]]
            /\ UNCHANGED <<pc, hist>>
  /\ UNCHANGED <<ws, remote, bak, meta, writer, calls, cfgAuthId, scm, auth, origin>>

\* Variant of CbRead: the sidecar is written before the content.
CbRead_thenSidecar(t, ok) ==
  /\ Settled
  /\ sub[t] = "cb_read"
  /\ IF ok /\ loc[t].uri \in DOMAIN ws
     THEN /\ sub' = [sub EXCEPT ![t] = "cb_meta"]
          /\ loc' = [loc EXCEPT ![t].content = Utf8Decode(ws[loc[t].uri])]
          /\ UNCHANGED <<pc, hist>>
     ELSE Thrown(t, "Failed to create backup", hist)
  /\ UNCHANGED <<clock, ws, remote, bak, meta, writer, calls, cfgAuthId, scm, auth, origin>>

\* const fileContent = await fs.readFile(uri.fsPath, 'utf8')
CbRead(t, ok) ==
  /\ Settled
  /\ sub[t] = "cb_read"
  /\ IF ok /\ loc[t].uri \in DOMAIN ws
     THEN /\ sub' = [sub EXCEPT ![t] = "cb_write"]
          /\ loc' = [loc EXCEPT ![t].content = Utf8Decode(ws[loc[t].uri])]
          /\ UNCHANGED <<pc, hist>>
     ELSE Thrown(t, "Failed to create backup", hist)
  /\ UNCHANGED <<clock, ws, remote, bak, meta, writer, calls, cfgAuthId, scm, auth, origin>>

\* await fs.writeFile(backupPath, fileContent, 'utf8')
CbWriteContent(t, ok) ==
  /\ Settled
  /\ sub[t] = "cb_write"
  /\ IF ok
     THEN /\ bak' = (loc[t].cbPath :> Utf8Encode(loc[t].content)) @@ bak
          /\ writer' = Written(t, loc[t].cbPath, "content")
          /\ sub' = [sub EXCEPT ![t] = "cb_meta"]
          /\ UNCHANGED <<pc, loc, hist>>
     ELSE /\ Thrown(t, "Failed to create backup", hist)
          /\ UNCHANGED <<bak, writer>>
  /\ UNCHANGED <<clock, ws, remote, meta, calls, cfgAuthId, scm, auth, origin>>

\* What the command does once createBackup has returned backupPath p: after
\* step 1 it goes on to the import, after step 3 it calls restoreFile.
AfterBackup(t, p) ==
  IF pc[t] = "local"
  THEN /\ pc' = [pc EXCEPT ![t] = "import"]
       /\ sub' = [sub EXCEPT ![t] = "none"]
       /\ loc' = [loc EXCEPT ![t] = [IdleLoc EXCEPT !.uri = loc[t].uri, !.backupPath = p]]
       /\ hist' = Event(t, "backup:local")
  ELSE /\ pc' = [pc EXCEPT ![t] = "restore"]
       /\ sub' = [sub EXCEPT ![t] = "rs_copy"]
       /\ loc' = [loc EXCEPT ![t] =
                    [IdleLoc EXCEPT !.uri = loc[t].uri,
                                    !.backupPath = loc[t].backupPath,
                                    !.accountBackupPath = p,
                                    !.rsTarget = loc[t].uri,
                                    !.rsFrom = loc[t].backupPath]]
       /\ hist' = Event(t, "backup:account")

\* await fs.writeFile(metadataPath, JSON.stringify(metadata)), then return.
CbWriteMeta(t, ok) ==
  /\ Settled
  /\ sub[t] = "cb_meta"
  /\ IF ok
     THEN /\ meta' = (loc[t].cbPath :> loc[t].cbMeta) @@ meta
          /\ writer' = Written(t, loc[t].cbPath, "sidecar")
          /\ calls' = Append(calls, [uri |-> loc[t].uri,
                                     source |-> loc[t].cbSource,
                                     path |-> loc[t].cbPath,
                                     content |-> loc[t].cbCall])
          /\ AfterBackup(t, loc[t].cbPath)
     ELSE /\ Thrown(t, "Failed to create backup", hist)
          /\ UNCHANGED <<meta, writer, calls>>
  /\ UNCHANGED <<clock, ws, remote, bak, cfgAuthId, scm, auth, origin>>

----------------------------------------------------------------------------
(* Step 2 (import), step 5 (upload) and the authentication prompts *)

\* How the file:import process can end for file f: it succeeds only when the
\* file cabinet holds f.
ImportOutcomes(f) ==
  IF f \in DOMAIN remote THEN {"ok"} \cup ImportFailureOutputs ELSE ImportFailureOutputs

\* Step 2: importFile(uri).  A successful import overwrites the workspace
\* file with the account version.
Import(t, answer, verify, cli) ==
  /\ Settled
  /\ pc[t] = "import"
  /\ cli \in ImportOutcomes(loc[t].uri)
  /\ LET result  == importFile(scm, answer, verify, cli)
           spawned == answer = "Yes" /\ Spawns(scm, verify)
           h       == [(IF spawned THEN Event(t, "import") ELSE hist)
                         EXCEPT ![t].importResult = result,
                                ![t].verified = IF answer = "Yes" /\ Verifies(scm)
                                                THEN Append(@, verify) ELSE @]
       IN /\ ws' = IF result = "ok" THEN (loc[t].uri :> remote[loc[t].uri]) @@ ws ELSE ws
          /\ IF result = "ok"
             THEN /\ pc' = [pc EXCEPT ![t] = "account"]
                  /\ sub' = [sub EXCEPT ![t] = "cb_prep"]
                  /\ loc' = [loc EXCEPT ![t].cbSource = "account"]
                  /\ hist' = h
             ELSE IF IsNotInNetSuite(result)
             THEN /\ pc' = [pc EXCEPT ![t] = "new_upload"]
                  /\ hist' = h
                  /\ UNCHANGED <<sub, loc>>
             ELSE IF IsImportAuthError(result)
             THEN /\ pc' = [pc EXCEPT ![t] = "auth_prompt"]
                  /\ hist' = [h EXCEPT ![t].error = result]
                  /\ UNCHANGED <<sub, loc>>
             ELSE Thrown(t, result, h)
  /\ UNCHANGED <<clock, remote, bak, meta, writer, calls, cfgAuthId, scm, auth, origin>>


\* What a file:upload process does when it succeeds: the file cabinet gets
\* the workspace file's current content.
Uploaded(f) == (f :> ws[f]) @@ remote

\* Step 5: uploadFile(uri) after the local version was restored.
Upload(t, verify, cli) ==
  /\ Settled
  /\ pc[t] = "upload"
  /\ LET result == uploadFile(scm, verify, cli)
           h      == [(IF Spawns(scm, verify)
                       THEN [Event(t, "upload") EXCEPT ![t].sent = Append(@, ws[loc[t].uri])]
                       ELSE hist)
                        EXCEPT ![t].uploads = Append(@, result),
                               ![t].verified = IF Verifies(scm)
                                               THEN Append(@, verify) ELSE @]
       IN /\ remote' = IF result = "ok" THEN Uploaded(loc[t].uri) ELSE remote
          /\ IF result = "ok"
             THEN /\ pc' = [pc EXCEPT ![t] = "compare"]
                  /\ hist' = h
                  /\ UNCHANGED <<sub, loc>>
             ELSE IF IsUploadAuthError(result)
             THEN /\ pc' = [pc EXCEPT ![t] = "auth_prompt"]
                  /\ hist' = [h EXCEPT ![t].error = result]
                  /\ UNCHANGED <<sub, loc>>
             ELSE Thrown(t, result, h)
  /\ UNCHANGED <<clock, ws, bak, meta, writer, calls, cfgAuthId, scm, auth, origin>>

\* The upload of a file that is not in NetSuite yet (extension.ts 471-500):
\* success ends the command, failure throws.
NewUpload(t, verify, cli) ==
  /\ Settled
  /\ pc[t] = "new_upload"
  /\ LET result == uploadFile(scm, verify, cli)
           h      == [(IF Spawns(scm, verify)
                       THEN [Event(t, "upload") EXCEPT ![t].sent = Append(@, ws[loc[t].uri])]
                       ELSE hist)
                        EXCEPT ![t].uploads = Append(@, result),
                               ![t].verified = IF Verifies(scm)
                                               THEN Append(@, verify) ELSE @]
       IN /\ remote' = IF result = "ok" THEN Uploaded(loc[t].uri) ELSE remote
          /\ IF result = "ok"
             THEN Finished(t, "ok", h)
             ELSE Thrown(t, result, h)
  /\ UNCHANGED <<clock, ws, bak, meta, writer, calls, cfgAuthId, scm, auth, origin>>

\* The authentication-error prompt after a failed import (extension.ts
\* 502-566) or a failed upload (610-677): unless the user runs the setup and
\* it completes, the command returns; no restore happens on this path.
AuthPrompt(t) ==
  /\ Settled
  /\ pc[t] = "auth_prompt"
  /\ \E response \in {"Run Authentication Setup", "View Documentation", "dismissed"},
        setupOk \in BOOLEAN :
       IF response = "Run Authentication Setup" /\ setupOk
       THEN /\ pc' = [pc EXCEPT ![t] = "retry_upload"]
            /\ UNCHANGED <<sub, loc, hist>>
       ELSE Finished(t, "returned", hist)
  /\ UNCHANGED <<clock, ws, remote, bak, meta, writer, calls, cfgAuthId, scm, auth, origin>>

\* Variant of RetryUpload: a failed retry is tried again.
RetryUpload_untilSuccess(t, verify, cli) ==
  /\ Settled
  /\ pc[t] = "retry_upload"
  /\ LET result == uploadFile(scm, verify, cli)
           h      == [(IF Spawns(scm, verify)
                       THEN [Event(t, "upload") EXCEPT ![t].sent = Append(@, ws[loc[t].uri])]
                       ELSE hist)
                        EXCEPT ![t].uploads = Append(@, result),
                               ![t].verified = IF Verifies(scm)
                                               THEN Append(@, verify) ELSE @]
       IN /\ remote' = IF result = "ok" THEN Uploaded(loc[t].uri) ELSE remote
          /\ IF result = "ok"
             THEN Finished(t, "returned", h)
             ELSE hist' = h /\ UNCHANGED <<pc, sub, loc>>
  /\ UNCHANGED <<clock, ws, bak, meta, writer, calls, cfgAuthId, scm, auth, origin>>

\* "Try upload again" after the authentication setup: whatever the result,
\* the command returns.
RetryUpload(t, verify, cli) ==
  /\ Settled
  /\ pc[t] = "retry_upload"
  /\ LET result == uploadFile(scm, verify, cli)
           h      == [(IF Spawns(scm, verify)
                       THEN [Event(t, "upload") EXCEPT ![t].sent = Append(@, ws[loc[t].uri])]
                       ELSE hist)
                        EXCEPT ![t].uploads = Append(@, result),
                               ![t].verified = IF Verifies(scm)
                                               THEN Append(@, verify) ELSE @]
       IN /\ remote' = IF result = "ok" THEN Uploaded(loc[t].uri) ELSE remote
          /\ Finished(t, "returned", h)
  /\ UNCHANGED <<clock, ws, bak, meta, writer, calls, cfgAuthId, scm, auth, origin>>

----------------------------------------------------------------------------
(* restoreFile: step 4, the emergency restore, and the explorer's command *)

\* Variant of RsReturn: after step 4 the command goes to the comparison
\* without uploading.
RsReturn_skipsUpload(t) ==
  CASE pc[t] = "restore" ->
         /\ pc' = [pc EXCEPT ![t] = "compare"]
         /\ sub' = [sub EXCEPT ![t] = "none"]
         /\ loc' = [loc EXCEPT ![t].content = <<>>, ![t].rsTarget = <<>>, ![t].rsFrom = NoPath,
                               ![t].rsSize = 0]
         /\ hist' = Event(t, "restore")
    [] pc[t] = "catch" -> Finished(t, "failed", Event(t, "emergency restore"))
    [] OTHER -> Finished(t, "ok", Event(t, "restored"))

\* restoreFile returned to its caller.
RsReturn(t) ==
  CASE pc[t] = "restore" ->
         /\ pc' = [pc EXCEPT ![t] = "upload"]
         /\ sub' = [sub EXCEPT ![t] = "none"]
         /\ loc' = [loc EXCEPT ![t].content = <<>>, ![t].rsTarget = <<>>, ![t].rsFrom = NoPath,
                               ![t].rsSize = 0]
         /\ hist' = Event(t, "restore")
    [] pc[t] = "catch" -> Finished(t, "failed", Event(t, "emergency restore"))
    [] OTHER -> Finished(t, "ok", Event(t, "restored"))

\* Variant of RsThrow: the emergency restore's error replaces the original.
RsThrow_surfacesRestoreError(t) ==
  CASE pc[t] = "restore" -> Thrown(t, "restore failed", hist)
    [] pc[t] = "catch" ->
         Finished(t, "failed", [Event(t, "emergency restore failed")
                                  EXCEPT ![t].error = "restore failed"])
    [] OTHER -> Finished(t, "failed", [hist EXCEPT ![t].error = "Failed to restore backup"])

\* restoreFile threw: step 4 goes to the catch block, the emergency restore's
\* failure is logged and the original error rethrown, the explorer's command
\* reports it.
RsThrow(t) ==
  CASE pc[t] = "restore" -> Thrown(t, "restore failed", hist)
    [] pc[t] = "catch" -> Finished(t, "failed", Event(t, "emergency restore failed"))
    [] OTHER -> Finished(t, "failed", [hist EXCEPT ![t].error = "Failed to restore backup"])

\* existsSync(backupPath), fs.stat, then fs.copyFile: the copy succeeds and
\* restoreFile returns, or it fails and the fallback starts, or the backup is
\* missing (or stat fails) and restoreFile throws.
RsCopy(t, stat, copy) ==
  /\ Settled
  /\ sub[t] = "rs_copy"
  /\ IF loc[t].rsFrom \notin DOMAIN bak \/ ~stat
     THEN RsThrow(t) /\ UNCHANGED ws
     ELSE IF copy
     THEN /\ ws' = restoreByCopy(ws, bak, loc[t].rsTarget, loc[t].rsFrom)
          /\ RsReturn(t)
     ELSE /\ sub' = [sub EXCEPT ![t] = "rs_read"]
          /\ loc' = [loc EXCEPT ![t].rsSize = Len(bak[loc[t].rsFrom])]
          /\ UNCHANGED <<ws, pc, hist>>
  /\ UNCHANGED <<clock, remote, bak, meta, writer, calls, cfgAuthId, scm, auth, origin>>

\* The fallback's readFile(backupPath).
RsRead(t, ok) ==
  /\ Settled
  /\ sub[t] = "rs_read"
  /\ IF ok /\ loc[t].rsFrom \in DOMAIN bak
     THEN /\ sub' = [sub EXCEPT ![t] = "rs_write"]
          /\ loc' = [loc EXCEPT ![t].content =
                       readBackup(bak, loc[t].rsFrom, loc[t].rsSize)]
          /\ UNCHANGED <<pc, hist>>
     ELSE RsThrow(t)
  /\ UNCHANGED <<clock, ws, remote, bak, meta, writer, calls, cfgAuthId, scm, auth, origin>>

\* The fallback's writeFile(targetUri.fsPath, backupContent).
RsWrite(t, ok) ==
  /\ Settled
  /\ sub[t] = "rs_write"
  /\ IF ok
     THEN /\ ws' = writeTarget(ws, loc[t].rsTarget, loc[t].content, loc[t].rsSize)
          /\ RsReturn(t)
     ELSE RsThrow(t) /\ UNCHANGED ws
  /\ UNCHANGED <<clock, remote, bak, meta, writer, calls, cfgAuthId, scm, auth, origin>>

\* The file operation restoreFile is awaiting never completes: fs.stat or
\* fs.copyFile (awaited alone), or the fallback's readFile or writeFile
\* (awaited in a Promise.race with timeoutPromise).
RsHang(t) ==
  /\ Settled
  /\ sub[t] \in {"rs_copy", "rs_read", "rs_write"}
  /\ loc[t].rsFrom \in DOMAIN bak
  /\ sub' = [sub EXCEPT ![t] = CASE sub[t] = "rs_copy" -> "hung_copy"
                                  [] sub[t] = "rs_read" -> "hung_read"
                                  [] OTHER -> "hung_write"]
  /\ UNCHANGED <<clock, ws, remote, bak, meta, writer, calls, cfgAuthId, scm, auth, origin, pc, loc, hist>>

\* The 120 s timer fires and rejects timeoutPromise: the await of a
\* Promise.race ends with 'File restoration timed out', restoreFile's catch
\* rethrows it.  An await of fs.stat or fs.copyFile alone is not affected.
RsTimeout(t) ==
  /\ Settled
  /\ sub[t] \in {"hung_read", "hung_write"}
  /\ CASE pc[t] = "restore" -> Thrown(t, "File restoration timed out", hist)
       [] pc[t] = "catch" -> Finished(t, "failed", Event(t, "emergency restore failed"))
       [] OTHER -> Finished(t, "failed", [hist EXCEPT ![t].error = "File restoration timed out"])
  /\ UNCHANGED <<clock, ws, remote, bak, meta, writer, calls, cfgAuthId, scm, auth, origin>>

\* suitecloudbackup.restoreBackup (extension.ts 834-881), invoked from a
\* backup node of the explorer: restoreFile(targetPath, backupPath), where
\* targetPath is the index key of the backup.
RestoreBackup(t, p) ==
  /\ Settled
  /\ pc[t] = "idle"
  /\ Started < MaxRuns
  /\ p \in findBackupFiles(bak)
  /\ pc' = [pc EXCEPT ![t] = "restoreBackup"]
  /\ sub' = [sub EXCEPT ![t] = "rs_copy"]
  /\ loc' = [loc EXCEPT ![t] =
               [IdleLoc EXCEPT !.rsTarget = getRelativePath(getOriginalFilePath(meta, p)),
                               !.rsFrom = p]]
  /\ hist' = [hist EXCEPT ![t] = [NewHist EXCEPT !.runs = hist[t].runs + 1]]
  /\ UNCHANGED <<clock, ws, remote, bak, meta, writer, calls, cfgAuthId, scm, auth, origin>>

----------------------------------------------------------------------------
(* Step 6 *)

\* fs.statSync(accountBackupPath) throws when the file is gone; otherwise
\* compareFiles decides which notification is shown.
Compare(t, readOk) ==
  /\ Settled
  /\ pc[t] = "compare"
  /\ IF loc[t].accountBackupPath \notin DOMAIN bak
     THEN Thrown(t, "ENOENT", hist)
     ELSE LET hasDifferences ==
                compareFiles(At(bak, loc[t].backupPath),
                             At(bak, loc[t].accountBackupPath), readOk)
          IN Finished(t, "ok",
               [Event(t, "compare") EXCEPT ![t].notified =
                  IF hasDifferences THEN "Differences detected"
                  ELSE "No differences detected"])
  /\ UNCHANGED <<clock, ws, remote, bak, meta, writer, calls, cfgAuthId, scm, auth, origin>>

----------------------------------------------------------------------------
(* Environment *)

\* A millisecond passes.
Tick ==
  /\ Settled
  /\ clock < MaxClock
  /\ clock' = clock + 1
  /\ UNCHANGED <<ws, remote, bak, meta, writer, calls, cfgAuthId, scm, auth, origin, pc, sub, loc, hist>>

\* A backup's content file is deleted from the backup directory by hand (the
\* extension only watches for it: extension.ts 368-371).
RemoveBackup(p) ==
  /\ Settled
  /\ p \in DOMAIN bak
  /\ bak' = [q \in DOMAIN bak \ {p} |-> bak[q]]
  /\ UNCHANGED <<clock, ws, remote, meta, writer, calls, cfgAuthId, scm, auth, origin, pc, sub, loc, hist>>

----------------------------------------------------------------------------
(* Specifications *)

\* One step of task t in a command on any file, or in the explorer's restore;
\* every file operation may fail, the CLI may end in any way.
Step(t) ==
  \/ Return(t)
  \/ \E f \in Files : Start(t, f)
  \/ CbPrepare(t)
  \/ \E ok \in BOOLEAN : CbRead(t, ok)
  \/ \E ok \in BOOLEAN : CbWriteContent(t, ok)
  \/ \E ok \in BOOLEAN : CbWriteMeta(t, ok)
  \/ \E answer \in {"Yes", "No"}, verify \in BOOLEAN, cli \in {"ok"} \cup ImportFailureOutputs :
       Import(t, answer, verify, cli)
  \/ \E verify \in BOOLEAN, cli \in {"ok"} \cup UploadFailureOutputs : Upload(t, verify, cli)
  \/ \E verify \in BOOLEAN, cli \in {"ok"} \cup UploadFailureOutputs : NewUpload(t, verify, cli)
  \/ AuthPrompt(t)
  \/ \E verify \in BOOLEAN, cli \in {"ok"} \cup UploadFailureOutputs : RetryUpload(t, verify, cli)
  \/ \E stat \in BOOLEAN, copy \in BOOLEAN : RsCopy(t, stat, copy)
  \/ \E ok \in BOOLEAN : RsRead(t, ok)
  \/ \E ok \in BOOLEAN : RsWrite(t, ok)
  \/ \E readOk \in BOOLEAN : Compare(t, readOk)
  \/ \E p \in DOMAIN bak : RestoreBackup(t, p)

\* Commands run one at a time: a single task.
NextSolo == Step(1) \/ Tick

SpecSolo == Init /\ [][NextSolo]_vars

\* One step of task t when file operations succeed on the files that exist
\* and the CLI either succeeds or fails with an error that is neither "not
\* found" nor an authentication error.
StepEnv(t) ==
  \/ Return(t)
  \/ \E f \in Files : Start(t, f)
  \/ CbPrepare(t)
  \/ CbRead(t, TRUE)
  \/ CbWriteContent(t, TRUE)
  \/ CbWriteMeta(t, TRUE)
  \/ \E cli \in {"ok", "otherText"} : Import(t, "Yes", TRUE, cli)
  \/ \E cli \in {"ok", "Command failed"} : Upload(t, TRUE, cli)
  \/ RsCopy(t, TRUE, TRUE)
  \/ Compare(t, TRUE)
  \/ \E p \in DOMAIN bak : RestoreBackup(t, p)

\* Commands run one at a time while backup files may be deleted by hand.
NextEnv == StepEnv(1) \/ Tick \/ \E p \in DOMAIN bak : RemoveBackup(p)

SpecEnv == InitConfigured /\ [][NextEnv]_vars

\* One step of task t when a file operation of restoreFile may fail or never
\* complete; the other file operations succeed and the CLI either succeeds or
\* fails with an error that is neither "not found" nor an authentication
\* error.
StepHang(t) ==
  \/ Return(t)
  \/ Start(t, FileA)
  \/ CbPrepare(t)
  \/ CbRead(t, TRUE)
  \/ CbWriteContent(t, TRUE)
  \/ CbWriteMeta(t, TRUE)
  \/ \E cli \in {"ok", "otherText"} : Import(t, "Yes", TRUE, cli)
  \/ \E cli \in {"ok", "Command failed"} : Upload(t, TRUE, cli)
  \/ \E copy \in BOOLEAN : RsCopy(t, TRUE, copy)
  \/ RsRead(t, TRUE)
  \/ RsWrite(t, TRUE)
  \/ RsHang(t)
  \/ RsTimeout(t)
  \/ Compare(t, TRUE)
  \/ \E p \in DOMAIN bak : RestoreBackup(t, p)

NextHang == StepHang(1) \/ Tick

\* The event loop runs every continuation and timer that is ready.
SpecHang == InitConfigured /\ [][NextHang]_vars /\ WF_vars(NextHang)

\* One step of task t when each task runs the upload command once, on FileA,
\* with a file system that does not fail and a CLI that either succeeds or
\* fails with an error that is neither "not found" nor an authentication
\* error.
StepTwo(t) ==
  \/ Return(t)
  \/ hist[t].runs = 0 /\ Start(t, FileA)
  \/ CbPrepare(t)
  \/ CbRead(t, TRUE)
  \/ CbWriteContent(t, TRUE)
  \/ CbWriteMeta(t, TRUE)
  \/ \E cli \in {"ok", "otherText"} : Import(t, "Yes", TRUE, cli)
  \/ \E cli \in {"ok", "Command failed"} : Upload(t, TRUE, cli)
  \/ RsCopy(t, TRUE, TRUE)
  \/ Compare(t, TRUE)

\* Two commands on the same file interleave at every await.
Next == (\E t \in Tasks : StepTwo(t)) \/ Tick

Spec == InitConfigured /\ [][Next]_vars

\* The authentication check alone, from any configuration.
NextAuth == \E listing \in Listings : checkAuth(listing)

SpecAuth == Init /\ [][NextAuth]_vars

----------------------------------------------------------------------------
(* Properties *)

Range(seq) == {seq[i] : i \in 1..Len(seq)}

\* Every occurrence of b in seq has an occurrence of a before it.
Precedes(seq, a, b) ==
  \A j \in 1..Len(seq) : seq[j] = b => \E i \in 1..(j - 1) : seq[i] = a

\* Task t is in (or has just ended) a run of the upload command.
UploadRun(t) == loc[t].uri # <<>>

\* The positions of the upload command after step 1.
AfterStep1 ==
  {"import", "new_upload", "auth_prompt", "retry_upload", "account", "restore",
   "upload", "compare", "catch"}

\* The call of createBackup that returns in this step, if one does.
Returns == Len(calls') = Len(calls) + 1
Returned == calls'[Len(calls')]

\* C1: the upload command starts no file:import and no file:upload process
\* before createBackup(uri, 'local') has returned a backup path; a run whose
\* local backup failed has started neither.
C1_BackupBeforeCli ==
  \A t \in Tasks :
    /\ Precedes(hist[t].events, "backup:local", "import")
    /\ Precedes(hist[t].events, "backup:local", "upload")
    /\ (UploadRun(t) /\ pc[t] \in AfterStep1) =>
         /\ loc[t].backupPath \in {c.path : c \in Range(calls)}
         /\ hist[t].events[1] = "backup:local"
    /\ (UploadRun(t) /\ loc[t].backupPath = NoPath) =>
         Range(hist[t].events) \cap {"import", "upload"} = {}

\* A run that started an import and an upload has ended.
C1_Witness ==
  \E t \in Tasks :
    /\ pc[t] = "done"
    /\ {"backup:local", "import", "upload"} \subseteq Range(hist[t].events)

C3_BackupIsRawCopy ==
  [][Returns =>
       LET c == Returned
           P == c.path
       IN /\ P \in DOMAIN bak' /\ P \in DOMAIN meta'
          /\ bak'[P] = c.content
          /\ meta'[P].originalFile = FsPath(c.uri)
          /\ meta'[P].source = c.source
          /\ meta'[P].authId = cfgAuthId
          /\ meta'[P].relativePath = getRelativePath(FsPath(c.uri))
          /\ meta'[P].timestamp \in P.ts..clock'
          /\ meta'[P].accountInfo = getAccountInfo(cfgAuthId)
          /\ P.dir = <<cfgAuthId, c.source>> \o Front(getRelativePath(FsPath(c.uri)))]_vars

\* C4: n createBackup calls that returned have n distinct records, all of
\* them listed by listBackups.
C4_EveryBackupIsNew ==
  LET listed == UNION {{e.path : e \in listBackups(bak, meta)[k]} :
                         k \in DOMAIN listBackups(bak, meta)}
  IN Cardinality({c.path : c \in Range(calls)} \cap listed) = Len(calls)

\* C5: listBackups reports what the backup directory holds now: when
\* createBackup returns and its content file has not been removed meanwhile,
\* the list for uri.fsPath has exactly one entry with the returned path, and
\* it carries the call's source and authentication ID and the sidecar's
\* timestamp; a backup file that was removed is not listed.
C5_IndexFollowsStore ==
  [][LET L == listBackups(bak', meta')
         listed == UNION {{e.path : e \in L[k]} : k \in DOMAIN L}
     IN /\ (Returns /\ Returned.path \in DOMAIN bak) =>
             LET c == Returned
                 k == FsPath(c.uri)
             IN /\ k \in DOMAIN L
                /\ Cardinality({e \in L[k] : e.path = c.path}) = 1
                /\ \A e \in L[k] :
                     e.path = c.path =>
                       /\ e.source = c.source
                       /\ e.authId = cfgAuthId
                       /\ e.timestamp = meta'[c.path].timestamp
        /\ \A p \in DOMAIN bak \ DOMAIN bak' : p \notin listed
        /\ listed \subseteq DOMAIN bak']_vars

\* A backup that createBackup returned has been removed from the directory.
C5_Witness ==
  \E i \in 1..Len(calls) : calls[i].path \in DOMAIN meta \ DOMAIN bak

\* restoreFile returns successfully in this step of task t.
Restores(t) ==
  /\ Len(hist'[t].events) = Len(hist[t].events) + 1
  /\ hist'[t].events[Len(hist'[t].events)] \in {"restore", "emergency restore", "restored"}

CodeOrder ==
  <<"backup:local", "import", "backup:account", "restore", "upload", "compare">>

\* The order the README gives: the upload before the import.
ReadmeOrder ==
  <<"backup:local", "upload", "import", "backup:account", "restore", "compare">>

C8_AccountBackupIsImport ==
  [][\A t \in Tasks :
       (Returns /\ pc[t] = "account" /\ pc'[t] = "restore") =>
         LET P == Returned.path
         IN /\ "import" \in Range(hist[t].events)
            /\ "restore" \notin Range(hist[t].events)
            /\ bak'[P] = remote[loc[t].uri]
            /\ hist[t].start # remote[loc[t].uri] => bak'[P] # bak'[loc[t].backupPath]]_vars

\* C9: createBackup takes no lock: whatever the other command is doing, each
\* of its steps can be taken.
C9_NoLock ==
  \A t \in Tasks :
    Settled =>
      /\ sub[t] = "cb_prep" => ENABLED CbPrepare(t)
      /\ sub[t] = "cb_read" => ENABLED CbRead(t, TRUE)
      /\ sub[t] = "cb_write" => ENABLED CbWriteContent(t, TRUE)
      /\ sub[t] = "cb_meta" => ENABLED CbWriteMeta(t, TRUE)

\* Two calls computed the same name; both wrote their content before either
\* wrote its sidecar, and the content and the sidecar that remain were
\* written by different calls.
C9_Witness ==
  \E P \in DOMAIN writer :
    /\ Len(writer[P]) = 4
    /\ writer[P][1].part = "content" /\ writer[P][2].part = "content"
    /\ writer[P][3].part = "sidecar" /\ writer[P][4].part = "sidecar"
    /\ writer[P][1].task # writer[P][2].task
    /\ writer[P][2].task # writer[P][4].task

\* C10: every sidecar in the backup directory has its content file; the only
\* incomplete pair is a content file without sidecar.
C10_SidecarHasContent == DOMAIN meta \subseteq DOMAIN bak

\* A createBackup that failed after writing the content has left a content
\* file without sidecar.
C10_Witness ==
  /\ \E P \in DOMAIN bak : P \notin DOMAIN meta
  /\ \E t \in Tasks : pc[t] = "done" /\ hist[t].error = "Failed to create backup"

\* restoreFile is running in task t.
Restoring(t) == sub[t] \in {"rs_copy", "rs_read", "rs_write", "hung_copy", "hung_read", "hung_write"}

\* C11: restoreFile always ends, by returning or by throwing (after 120 s at
\* the latest, with 'File restoration timed out'), even when a file operation
\* it started never completes.
C11_RestoreEnds == \A t \in Tasks : Restoring(t) ~> ~Restoring(t)

\* Task t's run has shown the notification of step 6.
Compared(t) == pc[t] = "done" /\ "compare" \in Range(hist[t].events)

\* The two backups of task t's run hold different content.
BackupsDiffer(t) == bak[loc[t].backupPath] # bak[loc[t].accountBackupPath]

\* C12 (as the code has it): after step 6, 'No differences detected' is shown
\* only when the local and the account backup hold the same content, and
\* 'Differences detected' whenever they differ; it is also shown when the
\* comparison itself failed.
C12_NotificationSound ==
  \A t \in Tasks :
    Compared(t) =>
      /\ hist[t].notified \in {"Differences detected", "No differences detected"}
      /\ hist[t].notified = "No differences detected" => ~BackupsDiffer(t)
      /\ BackupsDiffer(t) => hist[t].notified = "Differences detected"

\* C12 (as stated): 'Differences detected' is shown if and only if the two
\* backups differ.
C12_NotificationExact ==
  \A t \in Tasks :
    Compared(t) => (hist[t].notified = "Differences detected" <=> BackupsDiffer(t))

\* A run compared two identical backups and reported no difference.
C12_Witness ==
  \E t \in Tasks :
    Compared(t) /\ ~BackupsDiffer(t) /\ hist[t].notified = "No differences detected"

\* C13: the tree shows one file node per original file that has backups,
\* with the number of its backups, and under it one node per backup record
\* of that file, ordered by timestamp newest first.
C13_TreeShowsIndex ==
  LET index == listBackups(bak, meta)
  IN /\ \A k \in DOMAIN index :
          index[k] # {} =>
            Cardinality({n \in getFileNodes(index) : n.resourceUri = k}) = 1
     /\ \A n \in getFileNodes(index) :
          /\ n.resourceUri \in DOMAIN index
          /\ n.count = Cardinality(index[n.resourceUri])
     /\ \A k \in DOMAIN index :
          \A nodes \in getBackupNodes(index, k) :
            /\ Len(nodes) = Cardinality(index[k])
            /\ {nodes[i].backupPath : i \in 1..Len(nodes)} = {e.path : e \in index[k]}
            /\ \A i, j \in 1..Len(nodes) :
                 (/\ i < j
                  /\ nodes[i].timestamp # InvalidDate
                  /\ nodes[j].timestamp # InvalidDate)
                 => nodes[i].timestamp >= nodes[j].timestamp

\* C14: every file:upload of a command sends the content the workspace file
\* had when the command started; the imported version is never uploaded.
C14_UploadSendsStartContent ==
  \A t \in Tasks :
    \A i \in 1..Len(hist[t].sent) : hist[t].sent[i] = hist[t].start

\* The same for files whose bytes are valid UTF-8.
C14_UploadSendsStartText ==
  \A t \in Tasks :
    hist[t].start = Utf8Encode(Utf8Decode(hist[t].start)) =>
      \A i \in 1..Len(hist[t].sent) : hist[t].sent[i] = hist[t].start

\* importFile reported that the file is not in NetSuite: handleImportError's
\* message for a 'not found' output, or the CLI's own 'No files were found'.
ImportFoundNoFile(t) ==
  hist[t].importResult \in {"File not found in NetSuite",
                            "NetSuite error: No files were found"}

\* C15: when the import fails because the file does not exist in NetSuite,
\* the command skips the account backup and the restore, calls uploadFile
\* for the local file, and ends successfully if that upload succeeds.
C15_NewFileIsUploaded ==
  \A t \in Tasks :
    (pc[t] = "done" /\ ImportFoundNoFile(t)) =>
      /\ "backup:account" \notin Range(hist[t].events)
      /\ "restore" \notin Range(hist[t].events)
      /\ Len(hist[t].uploads) = 1
      /\ hist[t].uploads[1] = "ok" => hist[t].outcome = "ok"

\* The same for the one message the command recognises.
C15_NoFilesWereFound ==
  \A t \in Tasks :
    (pc[t] = "done" /\ hist[t].importResult = "NetSuite error: No files were found") =>
      /\ "backup:account" \notin Range(hist[t].events)
      /\ "restore" \notin Range(hist[t].events)
      /\ Len(hist[t].uploads) = 1
      /\ hist[t].uploads[1] = "ok" => hist[t].outcome = "ok"

\* Calls of restoreFile made by the catch block, as recorded in history h.
EmergencyAttempts(h) ==
  Cardinality({i \in 1..Len(h.events) :
                 h.events[i] \in {"emergency restore", "emergency restore failed"}})

\* C16: a command that throws after its local backup was created calls
\* restoreFile(uri, backupPath) once in its catch block and then rethrows:
\* it ends with 'Operation failed' carrying the error that was thrown, also
\* when the emergency restore itself fails.
C16_EmergencyRestoreOnce ==
  [][\A t \in Tasks :
       /\ (/\ pc[t] # "done" /\ pc'[t] = "done"
           /\ hist'[t].outcome = "failed"
           /\ "backup:local" \in Range(hist[t].events))
          => pc[t] = "catch"
       /\ (pc[t] # "catch" /\ pc'[t] = "catch")
          => /\ hist'[t].error # ""
             /\ EmergencyAttempts(hist'[t]) = 0
             /\ loc'[t].rsTarget = loc[t].uri
             /\ loc'[t].rsFrom = loc[t].backupPath
       /\ (pc[t] = "catch" /\ pc'[t] # "catch")
          => /\ pc'[t] = "done"
             /\ hist'[t].outcome = "failed"
             /\ hist'[t].error = hist[t].error
             /\ EmergencyAttempts(hist'[t]) = 1
       /\ (pc[t] = "catch" /\ pc'[t] = "catch")
          => /\ hist'[t].error = hist[t].error
             /\ EmergencyAttempts(hist'[t]) = 0]_vars

C16_Witness ==
  \E t \in Tasks :
    /\ pc[t] = "done"
    /\ hist[t].outcome = "failed"
    /\ hist[t].error = "Failed to import"
    /\ "emergency restore failed" \in Range(hist[t].events)

\* Times the file:import process was spawned, as recorded in history h.
ImportAttempts(h) == Cardinality({i \in 1..Len(h.events) : h.events[i] = "import"})

\* C17 as stated: within one command file:upload is spawned at most once and
\* uploadFile is not called again after it failed; file:import is spawned at
\* most once.
C17_NoRetry ==
  \A t \in Tasks :
    /\ Len(hist[t].sent) <= 1
    /\ Len(hist[t].uploads) <= 1
    /\ ImportAttempts(hist[t]) <= 1

\* C17: file:import is spawned at most once per command and uploadFile is
\* called at most twice; the second call is the retry after an authentication
\* error of the first upload, and an upload after a failed import happens only
\* when the import found no file or failed with an authentication error.
C17_OneRetryAfterAuthError ==
  \A t \in Tasks :
    /\ ImportAttempts(hist[t]) <= 1
    /\ Len(hist[t].sent) <= Len(hist[t].uploads)
    /\ Len(hist[t].uploads) <= 2
    /\ Len(hist[t].uploads) = 2 => IsUploadAuthError(hist[t].uploads[1])
    /\ (Len(hist[t].uploads) >= 1 /\ hist[t].importResult # "ok")
         => \/ IsNotInNetSuite(hist[t].importResult)
            \/ IsImportAuthError(hist[t].importResult)

C17_Witness ==
  \E t \in Tasks :
    /\ pc[t] = "done"
    /\ Len(hist[t].sent) = 2
    /\ hist[t].uploads[1] = "Command failed: credentials"

\* The command ended after the user declined the import confirmation.
Canceled(t) == pc[t] = "done" /\ hist[t].importResult = "Operation canceled"

\* C18: when the user does not answer 'Yes', importFile returns 'Operation
\* canceled' without spawning the CLI, and the command spawns neither
\* file:import nor file:upload and leaves the workspace file with the
\* content it had when the command started.
C18_CancelLeavesFile ==
  \A t \in Tasks :
    Canceled(t) =>
      /\ "import" \notin Range(hist[t].events)
      /\ "upload" \notin Range(hist[t].events)
      /\ hist[t].uploads = <<>>
      /\ ws[loc[t].uri] = hist[t].start

\* The same for files whose bytes are valid UTF-8.
C18_CancelLeavesText ==
  \A t \in Tasks :
    (Canceled(t) /\ hist[t].start = Utf8Encode(Utf8Decode(hist[t].start))) =>
      /\ "import" \notin Range(hist[t].events)
      /\ "upload" \notin Range(hist[t].events)
      /\ hist[t].uploads = <<>>
      /\ ws[loc[t].uri] = hist[t].start

\* In this step task t spawned a file:import or file:upload process.
SpawnedNow(t) ==
  /\ Len(hist'[t].events) = Len(hist[t].events) + 1
  /\ Last(hist'[t].events) \in {"import", "upload"}

\* C19: runCommand spawns the file:import or file:upload process only when
\* the project root and the authentication ID are set and its own call of
\* verifyAuthentication returned true; a call that does not spawn returns
\* success: false.
C19_SpawnOnlyVerified ==
  [][\A t \in Tasks :
       /\ SpawnedNow(t) =>
            /\ scm.projectRoot
            /\ scm.authId # NoAuth
            /\ Len(hist'[t].verified) = Len(hist[t].verified) + 1
            /\ Last(hist'[t].verified)
       /\ (Len(hist'[t].uploads) = Len(hist[t].uploads) + 1 /\ ~SpawnedNow(t))
            => Last(hist'[t].uploads) # "ok"
       /\ (pc[t] = "import" /\ pc'[t] # "import" /\ ~SpawnedNow(t))
            => hist'[t].importResult # "ok"]_vars

C19_Witness ==
  \E t \in Tasks :
    /\ pc[t] = "done"
    /\ hist[t].verified = <<TRUE, FALSE>>
    /\ "import" \in Range(hist[t].events)
    /\ "upload" \notin Range(hist[t].events)
    /\ hist[t].uploads = <<"authentication ID is not available">>

\* IDs a listing names.
Listed(listing) ==
  IF listing = ListFailed THEN {} ELSE {listing[i] : i \in 1..Len(listing)}

\* C20: verifyAuthentication returns true only if the configured
\* authentication ID is one of the IDs the CLI listed; an ID that is only
\* part of a listed ID is reported as not available.
C20_ValidIsListed ==
  (auth.checks > 0 /\ auth.valid) => auth.authId \in Listed(auth.listing)

\* Both commands on FileA have run and ended.
BothFinished == \A t \in Tasks : hist[t].runs = 1 /\ pc[t] \in {"idle", "done"}

\* What createBackup stores for content c.
Stored(c) == Utf8Encode(Utf8Decode(c))

C21_ConcurrentRunsKeepText ==
  (/\ BothFinished
   /\ Stored(origin.ws[FileA]) = origin.ws[FileA]
   /\ \A f \in DOMAIN origin.remote : Stored(origin.remote[f]) = origin.remote[f])
  => ws[FileA] = origin.ws[FileA]

====
